---- MODULE Spec2Model ----
(***************************************************************************)
(* Model of go/pkg/bertymessenger/links.go: BertyLink.Marshal,             *)
(* UnmarshalLink, BertyLink.IsValid, IsContact, IsGroup and the two        *)
(* GetBertyLink constructors, together with the codecs they call           *)
(* (protobuf proto3 wire format, base58, the QR base-N encoder, the URL    *)
(* query escaping).                                                        *)
(*                                                                         *)
(* A Go string and a Go []byte are both sequences of byte values 0..255.   *)
(* A []byte that may be nil is the record [nil, b]; a pointer to a struct  *)
(* is the struct with a "present" flag (FALSE = nil pointer).              *)
(***************************************************************************)
EXTENDS Integers, Sequences, FiniteSets, TLC

(***************************************************************************)
(* Text                                                                    *)
(***************************************************************************)

\* The printable ASCII characters, code 32 first (code 96 by name).
Ascii ==
  << " ", "!", "\"", "#", "$", "%", "&", "'", "(", ")", "*", "+", ",", "-", ".", "/",
     "0", "1", "2", "3", "4", "5", "6", "7", "8", "9", ":", ";", "<", "=", ">", "?",
     "@", "A", "B", "C", "D", "E", "F", "G", "H", "I", "J", "K", "L", "M", "N", "O",
     "P", "Q", "R", "S", "T", "U", "V", "W", "X", "Y", "Z", "[", "\\", "]", "^", "_",
     "BACKTICK", "a", "b", "c", "d", "e", "f", "g", "h", "i", "j", "k", "l", "m", "n", "o",
     "p", "q", "r", "s", "t", "u", "v", "w", "x", "y", "z", "{", "|", "}", "~" >>

\* The byte value of a printable character.
Ord(c) == 31 + (CHOOSE i \in 1..Len(Ascii) : Ascii[i] = c)

\* A string literal, written as a tuple of characters, as its bytes.
Str(cs) == << >> \o [i \in 1..Len(cs) |-> Ord(cs[i])]

\* strings.ToLower on ASCII text.
ToLowerByte(b) == IF b >= 65 /\ b <= 90 THEN b + 32 ELSE b

ToLower(s) == << >> \o [i \in 1..Len(s) |-> ToLowerByte(s[i])]

\* strings.HasPrefix
HasPrefix(s, p) == Len(s) >= Len(p) /\ SubSeq(s, 1, Len(p)) = p

\* s[n:]
Drop(s, n) == SubSeq(s, n + 1, Len(s))

\* index of the first occurrence of byte c in s, 0 when there is none
IndexByte(s, c) ==
  IF \E i \in 1..Len(s) : s[i] = c
    THEN CHOOSE i \in 1..Len(s) : s[i] = c /\ \A j \in 1..(i - 1) : s[j] # c
    ELSE 0

RECURSIVE Split(_, _)
\* strings.Split(s, sep) for a one-byte separator: always at least one part.
Split(s, c) ==
  LET i == IndexByte(s, c)
  IN IF i = 0 THEN << s >>
     ELSE << SubSeq(s, 1, i - 1) >> \o Split(Drop(s, i), c)

RECURSIVE Join(_, _)
\* strings.Join(parts, sep) for a one-byte separator.
Join(parts, c) ==
  IF Len(parts) = 0 THEN << >>
  ELSE IF Len(parts) = 1 THEN parts[1]
  ELSE parts[1] \o << c >> \o Join(Tail(parts), c)

Reverse(s) == << >> \o [i \in 1..Len(s) |-> s[Len(s) + 1 - i]]

Slash == Ord("/")

Hash == Ord("#")

LinkWebPrefix ==
  Str(<< "h", "t", "t", "p", "s", ":", "/", "/", "b", "e", "r", "t", "y", ".",
         "t", "e", "c", "h", "/", "i", "d", "#" >>)

LinkInternalPrefix == Str(<< "B", "E", "R", "T", "Y", ":", "/", "/" >>)

(***************************************************************************)
(* Base-N codecs                                                           *)
(***************************************************************************)

\* 0-based position of byte c in an alphabet, -1 when it is not a member.
AlphaIndex(alphabet, c) == IndexByte(alphabet, c) - 1

RECURSIVE MulAdd(_, _, _, _, _, _)
RECURSIVE MulAddRest(_, _, _, _, _)
\* The inner loop of the base conversion over digits[lo..hi] of a
\* little-endian digit array: digit j becomes (carry + digit * mul) % base
\* and the quotient is carried to digit j + 1.  Yields [digits, carry].  The
\* range is halved instead of walked, which keeps the evaluation shallow;
\* the steps happen in the order of the loop.
MulAdd(digits, lo, hi, carry, mul, base) ==
  IF lo > hi \/ hi > Len(digits) THEN [digits |-> digits, carry |-> carry]
  ELSE IF lo = hi
    THEN [digits |-> [digits EXCEPT ![lo] = (carry + digits[lo] * mul) % base],
          carry |-> (carry + digits[lo] * mul) \div base]
  ELSE MulAddRest(MulAdd(digits, lo, (lo + hi) \div 2, carry, mul, base),
                  (lo + hi) \div 2 + 1, hi, mul, base)

MulAddRest(r, lo, hi, mul, base) == MulAdd(r.digits, lo, hi, r.carry, mul, base)

RECURSIVE Extend(_, _, _)
\* The loop that appends the digits of the carry left by the inner loop.
Extend(digits, carry, base) ==
  IF carry > 0 THEN Extend(Append(digits, carry % base), carry \div base, base)
  ELSE digits

ExtendFrom(r, base) == Extend(r.digits, r.carry, base)

\* One round of the outer loop: digits := digits * mul + byte.
ConvertStep(digits, byte, mul, base) ==
  ExtendFrom(MulAdd(digits, 1, Len(digits), byte, mul, base), base)

RECURSIVE ConvertRange(_, _, _, _, _, _)
\* Feeds source[lo..hi] into the digit array, most significant first, the
\* range halved as in MulAdd.  (The test on digits only makes every call
\* evaluate its digit array on entry.)
ConvertRange(source, lo, hi, digits, mul, base) ==
  IF lo > hi \/ Len(digits) < 0 THEN digits
  ELSE IF lo = hi THEN ConvertStep(digits, source[lo], mul, base)
  ELSE ConvertRange(source, (lo + hi) \div 2 + 1, hi,
                    ConvertRange(source, lo, (lo + hi) \div 2, digits, mul, base),
                    mul, base)

\* The outer loop over the whole source.
Convert(source, digits, mul, base) ==
  ConvertRange(source, 1, Len(source), digits, mul, base)

RECURSIVE LeadingCount(_, _, _, _)
\* Number of k in 0..limit-1, counted from the front, with s[k] = z.
LeadingCount(s, z, k, limit) ==
  IF k < limit /\ s[k + 1] = z THEN LeadingCount(s, z, k + 1, limit) ELSE k

Repeat(x, n) == << >> \o [i \in 1..n |-> x]

\* The characters of a little-endian digit array, most significant first.
DigitsText(alphabet, rev) == << >> \o [q \in 1..Len(rev) |-> alphabet[rev[q] + 1]]

\* basex.Encoding.Encode: one alphabet[0] per leading zero byte except the
\* last byte of the source, then the digits of the number.
BasexEncode(alphabet, source) ==
  IF Len(source) = 0 THEN << >>
  ELSE Repeat(alphabet[1], LeadingCount(source, 0, 0, Len(source) - 1))
         \o DigitsText(alphabet,
                       Reverse(Convert(source, << 0 >>, 256, Len(alphabet))))

\* The values of the characters of a text in an alphabet.
TextDigits(alphabet, text) ==
  << >> \o [i \in 1..Len(text) |-> AlphaIndex(alphabet, text[i])]

\* basex.Encoding.Decode
BasexDecode(alphabet, source) ==
  IF Len(source) = 0 THEN [ok |-> TRUE, b |-> << >>]
  ELSE IF \E i \in 1..Len(source) : AlphaIndex(alphabet, source[i]) < 0
    THEN [ok |-> FALSE, b |-> << >>]
  ELSE [ok |-> TRUE,
        b |-> Reverse(Convert(TextDigits(alphabet, source), << 0 >>,
                              Len(alphabet), 256)
                        \o Repeat(0, LeadingCount(source, alphabet[1], 0,
                                                  Len(source) - 1)))]

\* A variant of the alphabet that keeps '+': the 43 characters left when only
\* SP and '%' are removed from the QR set.
qrAlphabet_WithPlus ==
  Str(<< "A", "B", "C", "D", "E", "F", "G", "H", "I", "J", "K", "L", "M", "N", "O",
         "P", "Q", "R", "S", "T", "U", "V", "W", "X", "Y", "Z", "0", "1", "2", "3",
         "4", "5", "6", "7", "8", "9", "$", "*", "+", "-", ".", ":", "/" >>)

\* The alphabet of the internal (QR) form.
qrAlphabet ==
  Str(<< "A", "B", "C", "D", "E", "F", "G", "H", "I", "J", "K", "L", "M", "N", "O",
         "P", "Q", "R", "S", "T", "U", "V", "W", "X", "Y", "Z", "0", "1", "2", "3",
         "4", "5", "6", "7", "8", "9", "$", "*", "-", ".", ":", "/" >>)

qrBaseEncode(bin) == BasexEncode(qrAlphabet, bin)

qrBaseDecode(text) == BasexDecode(qrAlphabet, text)

\* The Bitcoin alphabet of github.com/mr-tron/base58.
b58Alphabet ==
  Str(<< "1", "2", "3", "4", "5", "6", "7", "8", "9", "A", "B", "C", "D", "E", "F",
         "G", "H", "J", "K", "L", "M", "N", "P", "Q", "R", "S", "T", "U", "V", "W",
         "X", "Y", "Z", "a", "b", "c", "d", "e", "f", "g", "h", "i", "j", "k", "m",
         "n", "o", "p", "q", "r", "s", "t", "u", "v", "w", "x", "y", "z" >>)

\* The number held by bin[zeros+1..], in base 58, after one '1' per leading zero.
Base58EncodeFrom(bin, zeros) ==
  Repeat(b58Alphabet[1], zeros)
    \o DigitsText(b58Alphabet, Reverse(Convert(Drop(bin, zeros), << >>, 256, 58)))

\* base58.Encode: one '1' per leading zero byte, then the digits of the rest.
Base58Encode(bin) == Base58EncodeFrom(bin, LeadingCount(bin, 0, 0, Len(bin)))

Base58DecodeFrom(text, zeros) ==
  Repeat(0, zeros)
    \o Reverse(Convert(TextDigits(b58Alphabet, Drop(text, zeros)), << >>, 58, 256))

\* base58.Decode: the empty string and foreign characters are errors.
Base58Decode(text) ==
  IF Len(text) = 0 THEN [ok |-> FALSE, b |-> << >>]
  ELSE IF \E i \in 1..Len(text) : AlphaIndex(b58Alphabet, text[i]) < 0
    THEN [ok |-> FALSE, b |-> << >>]
  ELSE [ok |-> TRUE,
        b |-> Base58DecodeFrom(text, LeadingCount(text, b58Alphabet[1], 0, Len(text)))]

(***************************************************************************)
(* The link record                                                         *)
(***************************************************************************)

BertyLink_UnknownKind == 0

BertyLink_ContactInviteV1Kind == 1

BertyLink_GroupV1Kind == 2

GroupTypeMultiMember == 3

\* A nil []byte and a non-nil one.
NilBytes == [nil |-> TRUE, b |-> << >>]

Bytes(b) == [nil |-> FALSE, b |-> b]

\* The zero values of the structs; present = FALSE is the nil pointer.
NoBertyID ==
  [present |-> FALSE, PublicRendezvousSeed |-> NilBytes, AccountPK |-> NilBytes,
   DisplayName |-> << >>]

NoGroup ==
  [present |-> FALSE, PublicKey |-> NilBytes, Secret |-> NilBytes,
   SecretSig |-> NilBytes, GroupType |-> 0, SignPub |-> NilBytes]

NoBertyGroup == [present |-> FALSE, Group |-> NoGroup, DisplayName |-> << >>]

\* &BertyLink{}
EmptyLink ==
  [nil |-> FALSE, Kind |-> BertyLink_UnknownKind, BertyID |-> NoBertyID,
   BertyGroup |-> NoBertyGroup]

\* (*BertyLink)(nil)
NilLink == [EmptyLink EXCEPT !.nil = TRUE]

\* BertyID.GetBertyLink
BertyID_GetBertyLink(id) ==
  [EmptyLink EXCEPT !.Kind = BertyLink_ContactInviteV1Kind, !.BertyID = id]

\* BertyGroup.GetBertyLink
BertyGroup_GetBertyLink(group) ==
  [EmptyLink EXCEPT !.Kind = BertyLink_GroupV1Kind, !.BertyGroup = group]

(***************************************************************************)
(* proto.Marshal / proto.Unmarshal: the proto3 wire format of BertyLink    *)
(***************************************************************************)

RECURSIVE Varint(_)
Varint(n) == IF n < 128 THEN << n >> ELSE << (n % 128) + 128 >> \o Varint(n \div 128)

\* A length-delimited field (wire type 2) with field number num.
LenField(num, payload) == << num * 8 + 2 >> \o Varint(Len(payload)) \o payload

\* A varint field (wire type 0).
VarintField(num, v) == << num * 8 >> \o Varint(v)

\* proto3 leaves a zero-length bytes or string field, and a zero scalar, out.
OptLen(num, payload) == IF Len(payload) > 0 THEN LenField(num, payload) ELSE << >>

OptVarint(num, v) == IF v # 0 THEN VarintField(num, v) ELSE << >>

MarshalBertyID(id) ==
  OptLen(1, id.PublicRendezvousSeed.b) \o OptLen(2, id.AccountPK.b)
    \o OptLen(3, id.DisplayName)

MarshalGroup(g) ==
  OptLen(1, g.PublicKey.b) \o OptLen(2, g.Secret.b) \o OptLen(3, g.SecretSig.b)
    \o OptVarint(4, g.GroupType) \o OptLen(5, g.SignPub.b)

MarshalBertyGroup(bg) ==
  (IF bg.Group.present THEN LenField(1, MarshalGroup(bg.Group)) ELSE << >>)
    \o OptLen(2, bg.DisplayName)

\* proto.Marshal(link) for a non-nil link; a nil sub-message is left out, a
\* non-nil empty one is written with length 0.
ProtoMarshal(link) ==
  OptVarint(1, link.Kind)
    \o (IF link.BertyID.present THEN LenField(2, MarshalBertyID(link.BertyID))
        ELSE << >>)
    \o (IF link.BertyGroup.present
          THEN LenField(3, MarshalBertyGroup(link.BertyGroup))
        ELSE << >>)

RECURSIVE ReadVarint(_, _, _, _, _)
\* Reads a varint at b[i] (1-based): [ok, v, next].  n counts the bytes read;
\* MaxVarintLen bytes are decoded, a longer varint is rejected.
ReadVarint(b, i, v, mul, n) ==
  IF i > Len(b) \/ n >= 4 THEN [ok |-> FALSE, v |-> 0, next |-> i]
  ELSE IF b[i] < 128 THEN [ok |-> TRUE, v |-> v + b[i] * mul, next |-> i + 1]
  ELSE ReadVarint(b, i + 1, v + (b[i] - 128) * mul, mul * 128, n + 1)

\* The index after a field with tag t whose value starts with the varint v;
\* 0 on error.
SkipValue(t, v, depth) ==
  CASE t.v % 8 = 0 -> IF v.ok THEN v.next ELSE 0
    [] t.v % 8 = 1 -> t.next + 8
    [] t.v % 8 = 2 -> IF v.ok THEN v.next + v.v ELSE 0
    [] t.v % 8 = 3 -> t.next
    [] t.v % 8 = 4 -> IF depth = 0 THEN 0 ELSE t.next
    [] t.v % 8 = 5 -> t.next + 4
    [] OTHER -> 0

RECURSIVE Skip(_, _, _)
SkipTo(b, t, after, depth) ==
  IF ~t.ok \/ after = 0 THEN 0
  ELSE IF depth = 0 THEN after
  ELSE Skip(b, after, depth)

SkipTag(b, t, depth) ==
  SkipTo(b, t, SkipValue(t, ReadVarint(b, t.next, 0, 1, 0), depth),
         IF t.v % 8 = 3 THEN depth + 1 ELSE IF t.v % 8 = 4 THEN depth - 1 ELSE depth)

\* The generated skip function: the index after the field starting at b[i],
\* nested groups included; 0 on error.
Skip(b, i, depth) == IF i > Len(b) THEN 0 ELSE SkipTag(b, ReadVarint(b, i, 0, 1, 0), depth)

\* A field in front of the fields that follow it.
ConsField(f, rest) ==
  IF rest.ok THEN [ok |-> TRUE, fs |-> << f >> \o rest.fs]
  ELSE [ok |-> FALSE, fs |-> << >>]

RECURSIVE Fields(_, _)
\* The field with tag t and value varint v that ends before b[end], and the
\* fields after it.
FieldsAt(b, t, v, end) ==
  IF ~t.ok \/ t.v % 8 = 4 \/ t.v \div 8 <= 0 \/ end = 0 \/ end > Len(b) + 1
    THEN [ok |-> FALSE, fs |-> << >>]
  ELSE ConsField([num |-> t.v \div 8, wt |-> t.v % 8,
                  v |-> IF t.v % 8 = 0 THEN v.v ELSE 0,
                  p |-> IF t.v % 8 = 2 THEN SubSeq(b, v.next, end - 1) ELSE << >>],
                 Fields(b, end))

FieldsTag(b, i, t) == FieldsAt(b, t, ReadVarint(b, t.next, 0, 1, 0), Skip(b, i, 0))

\* The fields of the message b[i..], in wire order: [ok, fs], each field
\* [num, wt, v, p] with v the value of a varint field and p the payload of a
\* length-delimited one.  Truncated or malformed input gives ok = FALSE.
Fields(b, i) ==
  IF i > Len(b) THEN [ok |-> TRUE, fs |-> << >>]
  ELSE FieldsTag(b, i, ReadVarint(b, i, 0, 1, 0))

\* A known field must come with its own wire type.
WireOK(fs, num, wt) == \A k \in 1..Len(fs) : fs[k].num = num => fs[k].wt = wt

\* The last occurrence of field num, 0 when there is none.
LastOf(fs, num) ==
  IF \E k \in 1..Len(fs) : fs[k].num = num
    THEN CHOOSE k \in 1..Len(fs) :
           fs[k].num = num /\ \A j \in (k + 1)..Len(fs) : fs[j].num # num
    ELSE 0

BytesAt(fs, k, old) == IF k = 0 THEN old ELSE Bytes(fs[k].p)

StringAt(fs, k, old) == IF k = 0 THEN old ELSE fs[k].p

IntAt(fs, k, old) == IF k = 0 THEN old ELSE fs[k].v

\* A bytes field after unmarshalling into old: never nil once seen on the wire.
BytesOf(fs, num, old) == BytesAt(fs, LastOf(fs, num), old)

StringOf(fs, num, old) == StringAt(fs, LastOf(fs, num), old)

IntOf(fs, num, old) == IntAt(fs, LastOf(fs, num), old)

BertyIDFrom(r, id) ==
  IF ~r.ok \/ ~WireOK(r.fs, 1, 2) \/ ~WireOK(r.fs, 2, 2) \/ ~WireOK(r.fs, 3, 2)
    THEN [ok |-> FALSE, m |-> id]
  ELSE [ok |-> TRUE,
        m |-> [present |-> TRUE,
               PublicRendezvousSeed |-> BytesOf(r.fs, 1, id.PublicRendezvousSeed),
               AccountPK |-> BytesOf(r.fs, 2, id.AccountPK),
               DisplayName |-> StringOf(r.fs, 3, id.DisplayName)]]

\* BertyID.Unmarshal(b) into id: [ok, m]
UnmarshalBertyID(b, id) == BertyIDFrom(Fields(b, 1), id)

GroupFrom(r, g) ==
  IF ~r.ok \/ ~WireOK(r.fs, 1, 2) \/ ~WireOK(r.fs, 2, 2) \/ ~WireOK(r.fs, 3, 2)
       \/ ~WireOK(r.fs, 4, 0) \/ ~WireOK(r.fs, 5, 2)
    THEN [ok |-> FALSE, m |-> g]
  ELSE [ok |-> TRUE,
        m |-> [present |-> TRUE,
               PublicKey |-> BytesOf(r.fs, 1, g.PublicKey),
               Secret |-> BytesOf(r.fs, 2, g.Secret),
               SecretSig |-> BytesOf(r.fs, 3, g.SecretSig),
               GroupType |-> IntOf(r.fs, 4, g.GroupType),
               SignPub |-> BytesOf(r.fs, 5, g.SignPub)]]

\* Group.Unmarshal(b) into g: [ok, m]
UnmarshalGroup(b, g) == GroupFrom(Fields(b, 1), g)

RECURSIVE MergeGroups(_, _, _, _)
MergeGroupsNext(fs, k, num, r) ==
  IF r.ok THEN MergeGroups(fs, k + 1, num, r.m) ELSE r

\* Unmarshals every occurrence of the Group field num into g, in wire order
\* (a repeated occurrence merges into the message built so far): [ok, m].
MergeGroups(fs, k, num, g) ==
  IF k > Len(fs) THEN [ok |-> TRUE, m |-> g]
  ELSE IF fs[k].num # num THEN MergeGroups(fs, k + 1, num, g)
  ELSE MergeGroupsNext(fs, k, num, UnmarshalGroup(fs[k].p, g))

BertyGroupFrom(r, g, bg) ==
  IF ~r.ok \/ ~WireOK(r.fs, 1, 2) \/ ~WireOK(r.fs, 2, 2) \/ ~g.ok
    THEN [ok |-> FALSE, m |-> bg]
  ELSE [ok |-> TRUE,
        m |-> [present |-> TRUE, Group |-> g.m,
               DisplayName |-> StringOf(r.fs, 2, bg.DisplayName)]]

BertyGroupFields(r, bg) == BertyGroupFrom(r, MergeGroups(r.fs, 1, 1, bg.Group), bg)

\* BertyGroup.Unmarshal(b) into bg: [ok, m]
UnmarshalBertyGroup(b, bg) == BertyGroupFields(Fields(b, 1), bg)

RECURSIVE MergeBertyIDs(_, _, _, _)
MergeBertyIDsNext(fs, k, num, r) ==
  IF r.ok THEN MergeBertyIDs(fs, k + 1, num, r.m) ELSE r

\* The same for the BertyID field of the link.
MergeBertyIDs(fs, k, num, id) ==
  IF k > Len(fs) THEN [ok |-> TRUE, m |-> id]
  ELSE IF fs[k].num # num THEN MergeBertyIDs(fs, k + 1, num, id)
  ELSE MergeBertyIDsNext(fs, k, num, UnmarshalBertyID(fs[k].p, id))

RECURSIVE MergeBertyGroups(_, _, _, _)
MergeBertyGroupsNext(fs, k, num, r) ==
  IF r.ok THEN MergeBertyGroups(fs, k + 1, num, r.m) ELSE r

\* The same for the BertyGroup field of the link.
MergeBertyGroups(fs, k, num, bg) ==
  IF k > Len(fs) THEN [ok |-> TRUE, m |-> bg]
  ELSE IF fs[k].num # num THEN MergeBertyGroups(fs, k + 1, num, bg)
  ELSE MergeBertyGroupsNext(fs, k, num, UnmarshalBertyGroup(fs[k].p, bg))

LinkFrom(r, id, bg) ==
  IF ~r.ok \/ ~WireOK(r.fs, 1, 0) \/ ~WireOK(r.fs, 2, 2) \/ ~WireOK(r.fs, 3, 2)
       \/ ~id.ok \/ ~bg.ok
    THEN [ok |-> FALSE, m |-> EmptyLink]
  ELSE [ok |-> TRUE,
        m |-> [nil |-> FALSE, Kind |-> IntOf(r.fs, 1, BertyLink_UnknownKind),
               BertyID |-> id.m, BertyGroup |-> bg.m]]

LinkFields(r) ==
  LinkFrom(r, MergeBertyIDs(r.fs, 1, 2, NoBertyID),
           MergeBertyGroups(r.fs, 1, 3, NoBertyGroup))

\* proto.Unmarshal(b, &link) into a zero link: [ok, m]
ProtoUnmarshal(b) == LinkFields(Fields(b, 1))

(***************************************************************************)
(* net/url                                                                 *)
(***************************************************************************)

HexDigits ==
  Str(<< "0", "1", "2", "3", "4", "5", "6", "7", "8", "9", "A", "B", "C", "D", "E",
         "F" >>)

IsHex(c) == AlphaIndex(HexDigits, c) >= 0 \/ (c >= Ord("a") /\ c <= Ord("f"))

UnHex(c) ==
  IF c >= Ord("a") /\ c <= Ord("f") THEN c - Ord("a") + 10
  ELSE AlphaIndex(HexDigits, c)

\* The bytes url.QueryEscape leaves alone: letters, digits, '-', '_', '.', '~'.
IsUnreserved(c) ==
  \/ (c >= Ord("a") /\ c <= Ord("z"))
  \/ (c >= Ord("A") /\ c <= Ord("Z"))
  \/ (c >= Ord("0") /\ c <= Ord("9"))
  \/ c \in {Ord("-"), Ord("_"), Ord("."), Ord("~")}

RECURSIVE QueryEscape(_)
\* url.QueryEscape: a space becomes '+', every other reserved byte %XX.
QueryEscape(s) ==
  IF s = << >> THEN << >>
  ELSE LET c == Head(s)
           e == IF IsUnreserved(c) THEN << c >>
                ELSE IF c = Ord(" ") THEN << Ord("+") >>
                ELSE << Ord("%"), HexDigits[(c \div 16) + 1], HexDigits[(c % 16) + 1] >>
       IN e \o QueryEscape(Tail(s))

\* A '%' that is not followed by two hex digits.
BadEscape(s) ==
  \E i \in 1..Len(s) :
    s[i] = Ord("%") /\ ~(i + 2 <= Len(s) /\ IsHex(s[i + 1]) /\ IsHex(s[i + 2]))

RECURSIVE QueryUnescape(_)
\* url.QueryUnescape of a string without bad escapes.
QueryUnescape(s) ==
  IF s = << >> THEN << >>
  ELSE IF Head(s) = Ord("%")
    THEN << UnHex(s[2]) * 16 + UnHex(s[3]) >> \o QueryUnescape(Drop(s, 3))
  ELSE IF Head(s) = Ord("+") THEN << Ord(" ") >> \o QueryUnescape(Tail(s))
  ELSE << Head(s) >> \o QueryUnescape(Tail(s))

KeyName == Str(<< "n", "a", "m", "e" >>)

\* url.Values{}.Add("name", v) followed by Encode(): the only key Marshal adds.
ValuesEncode(name) == KeyName \o << Ord("=") >> \o QueryEscape(name)

\* One "key=value" setting of a query string, unescaped: [ok, k, v].
ParsePair(kv) ==
  LET i == IndexByte(kv, Ord("="))
      k == IF i = 0 THEN kv ELSE SubSeq(kv, 1, i - 1)
      v == IF i = 0 THEN << >> ELSE Drop(kv, i)
  IN IF BadEscape(k) \/ BadEscape(v) THEN [ok |-> FALSE, k |-> << >>, v |-> << >>]
     ELSE [ok |-> TRUE, k |-> QueryUnescape(k), v |-> QueryUnescape(v)]

AllOK(pairs) == [ok |-> \A i \in 1..Len(pairs) : pairs[i].ok, pairs |-> pairs]

ParsePairs(kept) == AllOK(<< >> \o [i \in 1..Len(kept) |-> ParsePair(kept[i])])

\* url.ParseQuery: the settings between '&', empty ones skipped: [ok, pairs].
\* (The inputs hold no ';', which Go versions treat differently.)
ParseQuery(q) == ParsePairs(SelectSeq(Split(q, Ord("&")), LAMBDA kv : kv # << >>))

\* url.Values.Get(key): the first value of the key, "" when it has none.
ValuesGet(pairs, key) ==
  IF \E i \in 1..Len(pairs) : pairs[i].k = key
    THEN pairs[CHOOSE i \in 1..Len(pairs) :
                 pairs[i].k = key /\ \A j \in 1..(i - 1) : pairs[j].k # key].v
    ELSE << >>

\* url.Parse fails on a control character and on a bad escape in the fragment.
ParseFails(uri) ==
  \/ \E i \in 1..Len(uri) : uri[i] < 32 \/ uri[i] = 127
  \/ IndexByte(uri, Hash) > 0 /\ BadEscape(Drop(uri, IndexByte(uri, Hash)))

(***************************************************************************)
(* links.go                                                                *)
(***************************************************************************)

\* errcode values; a wrapped error keeps the code of the wrapper.  "panic"
\* is a nil-pointer dereference: the call does not return.
NoError == "nil"

ErrMissingInput == "ErrMissingInput"

ErrInvalidInput == "ErrInvalidInput"

Panic == "panic"

\* A variant of IsValid without the test of the group type.
IsValid_AnyGroupType(link) ==
  IF link.nil THEN ErrMissingInput
  ELSE IF link.Kind = BertyLink_ContactInviteV1Kind
    THEN IF \/ ~link.BertyID.present
            \/ link.BertyID.AccountPK.nil
            \/ link.BertyID.PublicRendezvousSeed.nil
           THEN ErrMissingInput
         ELSE NoError
  ELSE IF link.Kind = BertyLink_GroupV1Kind
    THEN IF ~link.BertyGroup.present THEN ErrMissingInput
         ELSE IF ~link.BertyGroup.Group.present THEN Panic
         ELSE NoError
  ELSE ErrInvalidInput

\* func (link *BertyLink) IsValid() error
IsValid(link) ==
  IF link.nil THEN ErrMissingInput
  ELSE IF link.Kind = BertyLink_ContactInviteV1Kind
    THEN IF \/ ~link.BertyID.present
            \/ link.BertyID.AccountPK.nil
            \/ link.BertyID.PublicRendezvousSeed.nil
           THEN ErrMissingInput
         ELSE NoError
  ELSE IF link.Kind = BertyLink_GroupV1Kind
    THEN IF ~link.BertyGroup.present THEN ErrMissingInput
         ELSE IF ~link.BertyGroup.Group.present THEN Panic
         ELSE IF link.BertyGroup.Group.GroupType # GroupTypeMultiMember
           THEN ErrInvalidInput
         ELSE NoError
  ELSE ErrInvalidInput

\* func (link *BertyLink) IsContact() bool: "true", "false" or "panic"
IsContact(link) ==
  IF link.nil THEN Panic
  ELSE IF link.Kind # BertyLink_ContactInviteV1Kind THEN "false"
  ELSE IF IsValid(link) = Panic THEN Panic
  ELSE IF IsValid(link) = NoError THEN "true" ELSE "false"

\* func (link *BertyLink) IsGroup() bool: "true", "false" or "panic"
IsGroup(link) ==
  IF link.nil THEN Panic
  ELSE IF link.Kind # BertyLink_GroupV1Kind THEN "false"
  ELSE IF IsValid(link) = Panic THEN Panic
  ELSE IF IsValid(link) = NoError THEN "true" ELSE "false"

KindContact == Str(<< "c", "o", "n", "t", "a", "c", "t" >>)

KindGroup == Str(<< "g", "r", "o", "u", "p" >>)

FormatPB == Str(<< "P", "B" >>)

\* The machine record of the web form: the part of the link that goes into
\* the base58 blob.
Machine(link) ==
  IF link.Kind = BertyLink_ContactInviteV1Kind
    THEN [EmptyLink EXCEPT
            !.BertyID = [present |-> TRUE,
                         PublicRendezvousSeed |-> link.BertyID.PublicRendezvousSeed,
                         AccountPK |-> link.BertyID.AccountPK,
                         DisplayName |-> << >>]]
  ELSE [EmptyLink EXCEPT
          !.BertyGroup = [present |-> TRUE,
                          Group |-> [present |-> TRUE,
                                     PublicKey |-> link.BertyGroup.Group.PublicKey,
                                     Secret |-> link.BertyGroup.Group.Secret,
                                     SecretSig |-> link.BertyGroup.Group.SecretSig,
                                     GroupType |-> link.BertyGroup.Group.GroupType,
                                     SignPub |-> link.BertyGroup.Group.SignPub],
                          DisplayName |-> << >>]]

\* A variant of Human that never adds the display name.
Human_NoName(link) == << >>

\* The human values of the web form, encoded: the display name, when there
\* is one.
Human(link) ==
  IF link.Kind = BertyLink_ContactInviteV1Kind
    THEN IF link.BertyID.DisplayName # << >>
           THEN ValuesEncode(link.BertyID.DisplayName)
         ELSE << >>
  ELSE IF link.BertyGroup.DisplayName # << >>
         THEN ValuesEncode(link.BertyGroup.DisplayName)
       ELSE << >>

\* The kind tag of the web form.
KindTag(link) ==
  IF link.Kind = BertyLink_ContactInviteV1Kind THEN KindContact ELSE KindGroup

\* The web URL from the path and the encoded human values.
WebURL(path, human) ==
  LinkWebPrefix \o (IF Len(human) > 0 THEN path \o << Slash >> \o human ELSE path)

\* The web URL of a valid link.
MarshalWeb(link) ==
  WebURL(KindTag(link) \o << Slash >> \o Base58Encode(ProtoMarshal(Machine(link))),
         Human(link))

\* The internal URL of a valid link: the whole link goes into the blob.
MarshalInternal(link) ==
  LinkInternalPrefix \o FormatPB \o << Slash >> \o qrBaseEncode(ProtoMarshal(link))

MarshalError(err) == [internal |-> << >>, web |-> << >>, err |-> err]

\* func (link *BertyLink) Marshal() (internal string, web string, err error)
Marshal(link) ==
  IF link.nil \/ link.Kind = BertyLink_UnknownKind THEN MarshalError(ErrMissingInput)
  ELSE IF IsValid(link) # NoError THEN MarshalError(IsValid(link))
  ELSE IF link.Kind \notin {BertyLink_ContactInviteV1Kind, BertyLink_GroupV1Kind}
    THEN MarshalError(ErrInvalidInput)
  ELSE [internal |-> MarshalInternal(link), web |-> MarshalWeb(link),
        err |-> NoError]

UnmarshalError(err) == [link |-> NilLink, err |-> err]

\* The decoded blob of either format, unmarshalled.
Deserialize(bin) == IF bin.ok THEN ProtoUnmarshal(bin.b) ELSE [ok |-> FALSE, m |-> EmptyLink]

InternalLink(link) ==
  IF ~link.ok THEN UnmarshalError(ErrInvalidInput)
  ELSE [link |-> link.m, err |-> NoError]

InternalParts(parts) ==
  IF Len(parts) < 2 THEN UnmarshalError(ErrInvalidInput)
  ELSE IF ToLower(parts[1]) # ToLower(FormatPB) THEN UnmarshalError(ErrInvalidInput)
  ELSE InternalLink(Deserialize(qrBaseDecode(Join(Tail(parts), Slash))))

\* UnmarshalLink, internal format: uri starts with LinkInternalPrefix.
UnmarshalInternal(uri) == InternalParts(Split(Drop(uri, Len(LinkInternalPrefix)), Slash))

\* A variant of MergeHuman that leaves a missing sub-record missing.
MergeHuman_KeepMissing(link, kind, human) ==
  LET name == ValuesGet(human, KeyName)
  IN IF kind = KindContact
       THEN [link |-> [link EXCEPT
                         !.Kind = BertyLink_ContactInviteV1Kind,
                         !.BertyID =
                           IF @.present /\ name # << >> /\ @.DisplayName = << >>
                             THEN [@ EXCEPT !.DisplayName = name]
                           ELSE @],
             err |-> NoError]
     ELSE IF kind = KindGroup
       THEN [link |-> [link EXCEPT
                         !.Kind = BertyLink_GroupV1Kind,
                         !.BertyGroup =
                           IF @.present /\ name # << >> /\ @.DisplayName = << >>
                             THEN [@ EXCEPT !.DisplayName = name]
                           ELSE @],
             err |-> NoError]
     ELSE UnmarshalError(ErrInvalidInput)

\* A variant of MergeHuman in which a name in the query replaces the name of
\* the blob.
MergeHuman_QueryWins(link, kind, human) ==
  LET name == ValuesGet(human, KeyName)
  IN IF kind = KindContact
       THEN LET id == [link.BertyID EXCEPT !.present = TRUE]
            IN [link |-> [link EXCEPT
                            !.Kind = BertyLink_ContactInviteV1Kind,
                            !.BertyID =
                              IF name # << >> THEN [id EXCEPT !.DisplayName = name]
                              ELSE id],
                err |-> NoError]
     ELSE IF kind = KindGroup
       THEN LET bg == [link.BertyGroup EXCEPT !.present = TRUE]
            IN [link |-> [link EXCEPT
                            !.Kind = BertyLink_GroupV1Kind,
                            !.BertyGroup =
                              IF name # << >> THEN [bg EXCEPT !.DisplayName = name]
                              ELSE bg],
                err |-> NoError]
     ELSE UnmarshalError(ErrInvalidInput)

\* UnmarshalLink, web format: the per-kind merging strategies and checks.
MergeHuman(link, kind, human) ==
  LET name == ValuesGet(human, KeyName)
  IN IF kind = KindContact
       THEN LET id == [link.BertyID EXCEPT !.present = TRUE]
            IN [link |-> [link EXCEPT
                            !.Kind = BertyLink_ContactInviteV1Kind,
                            !.BertyID =
                              IF name # << >> /\ id.DisplayName = << >>
                                THEN [id EXCEPT !.DisplayName = name]
                              ELSE id],
                err |-> NoError]
     ELSE IF kind = KindGroup
       THEN LET bg == [link.BertyGroup EXCEPT !.present = TRUE]
            IN [link |-> [link EXCEPT
                            !.Kind = BertyLink_GroupV1Kind,
                            !.BertyGroup =
                              IF name # << >> /\ bg.DisplayName = << >>
                                THEN [bg EXCEPT !.DisplayName = name]
                              ELSE bg],
                err |-> NoError]
     ELSE UnmarshalError(ErrInvalidInput)

WebLink(kind, link, human) ==
  IF ~link.ok THEN UnmarshalError(ErrInvalidInput)
  ELSE IF ~human.ok THEN UnmarshalError(ErrInvalidInput)
  ELSE MergeHuman(link.m, kind, human.pairs)

WebParts(parts) ==
  IF Len(parts) < 2 THEN UnmarshalError(ErrInvalidInput)
  ELSE WebLink(parts[1], Deserialize(Base58Decode(parts[2])),
               IF Len(parts) > 2 THEN ParseQuery(Join(Drop(parts, 2), Slash))
               ELSE [ok |-> TRUE, pairs |-> << >>])

WebFragment(rawFragment) ==
  IF rawFragment = << >> THEN UnmarshalError(ErrInvalidInput)
  ELSE WebParts(Split(rawFragment, Slash))

\* UnmarshalLink, web format: uri starts with LinkWebPrefix.
UnmarshalWeb(uri) ==
  IF ParseFails(uri) THEN UnmarshalError(ErrInvalidInput)
  ELSE WebFragment(Join(Tail(Split(uri, Hash)), Hash))

\* A variant of UnmarshalLink without the test for the empty string.
UnmarshalLink_NoEmptyCheck(uri) ==
  IF HasPrefix(ToLower(uri), ToLower(LinkInternalPrefix))
    THEN UnmarshalInternal(uri)
  ELSE IF HasPrefix(ToLower(uri), ToLower(LinkWebPrefix)) THEN UnmarshalWeb(uri)
  ELSE UnmarshalError(ErrInvalidInput)

\* func UnmarshalLink(uri string) (*BertyLink, error)
UnmarshalLink(uri) ==
  IF uri = << >> THEN UnmarshalError(ErrMissingInput)
  ELSE IF HasPrefix(ToLower(uri), ToLower(LinkInternalPrefix))
    THEN UnmarshalInternal(uri)
  ELSE IF HasPrefix(ToLower(uri), ToLower(LinkWebPrefix)) THEN UnmarshalWeb(uri)
  ELSE UnmarshalError(ErrInvalidInput)

(***************************************************************************)
(* Inputs                                                                  *)
(***************************************************************************)

\* Longest byte field tried.
MaxKeyLen == 1

\* Largest value tried for the Kind enumeration (2 is the last defined one).
MaxKind == 3

\* Largest value tried for the group type (3 is the multi-member type).
MaxGroupType == 4

ByteValues == {0, 200}

\* Every []byte value up to MaxKeyLen bytes: nil, empty, and the non-empty ones.
ByteFields ==
  {NilBytes} \cup {Bytes(b) : b \in UNION {[1..k -> ByteValues] : k \in 0..MaxKeyLen}}

\* Display names: none, a plain one, and one full of reserved characters.
Names ==
  { << >>, Str(<< "A", "l" >>), Str(<< "a", "/", "#", "&", "=", "%", "+", " " >>) }

BertyIDs ==
  {NoBertyID} \cup
  {[present |-> TRUE, PublicRendezvousSeed |-> s, AccountPK |-> a, DisplayName |-> n] :
     s \in ByteFields, a \in ByteFields, n \in Names}

Groups ==
  {NoGroup} \cup
  {[present |-> TRUE, PublicKey |-> pk, Secret |-> Bytes(<< 7 >>),
    SecretSig |-> NilBytes, GroupType |-> gt, SignPub |-> sp] :
     pk \in ByteFields, gt \in 0..MaxGroupType, sp \in {NilBytes, Bytes(<< >>)}}

BertyGroups ==
  {NoBertyGroup}
    \cup {[present |-> TRUE, Group |-> g, DisplayName |-> << >>] : g \in Groups}
    \cup {[present |-> TRUE, Group |-> g, DisplayName |-> n] :
            g \in {gg \in Groups : gg.PublicKey = Bytes(<< >>) /\ gg.SignPub.nil},
            n \in Names}

\* A record that is complete for either kind.
BothLink(k, n) ==
  [nil |-> FALSE, Kind |-> k,
   BertyID |-> [present |-> TRUE, PublicRendezvousSeed |-> Bytes(<< 200 >>),
                AccountPK |-> Bytes(<< 0 >>), DisplayName |-> n],
   BertyGroup |-> [present |-> TRUE,
                   Group |-> [NoGroup EXCEPT !.present = TRUE,
                                             !.GroupType = GroupTypeMultiMember],
                   DisplayName |-> n]]

\* The records handed to IsValid and Marshal, and put into crafted blobs:
\* the nil link, contact and group links with every sub-record, links of
\* every kind value without a sub-record or with both.
InputLinks ==
  {NilLink}
    \cup {BertyID_GetBertyLink(id) : id \in BertyIDs}
    \cup {BertyGroup_GetBertyLink(bg) : bg \in BertyGroups}
    \cup {[EmptyLink EXCEPT !.Kind = k] : k \in 0..MaxKind}
    \cup {BothLink(k, n) : k \in 0..MaxKind, n \in Names}

\* Query strings of crafted web links: none, or settings key=value.
Setting(k, v) == [k |-> k, v |-> v]

Queries ==
  { [has |-> FALSE, pairs |-> << >>],
    [has |-> TRUE, pairs |-> << >>],
    [has |-> TRUE, pairs |-> << Setting(KeyName, Str(<< "B", "o", "/", "b" >>)) >>],
    [has |-> TRUE, pairs |-> << Setting(KeyName, << >>) >>],
    [has |-> TRUE, pairs |-> << Setting(Str(<< "x" >>), Str(<< "1" >>)),
                                Setting(KeyName, Str(<< "C" >>)),
                                Setting(KeyName, Str(<< "D" >>)) >>] }

RECURSIVE EncodeSettings(_)
EncodeSettings(pairs) ==
  IF pairs = << >> THEN << >>
  ELSE QueryEscape(pairs[1].k) \o << Ord("=") >> \o QueryEscape(pairs[1].v)
         \o (IF Len(pairs) > 1 THEN << Ord("&") >> ELSE << >>)
         \o EncodeSettings(Tail(pairs))

WebPrefixUpper ==
  Str(<< "H", "T", "T", "P", "S", ":", "/", "/", "B", "e", "r", "t", "y", ".",
         "T", "E", "C", "H", "/", "I", "D", "#" >>)

InternalPrefixLower == Str(<< "b", "e", "r", "t", "Y", ":", "/", "/" >>)

\* The shapes of crafted web links: prefix, kind tag and query.
WebShapes ==
  {[prefix |-> LinkWebPrefix, tag |-> t, q |-> q] :
     t \in {KindContact, KindGroup}, q \in Queries}
    \cup {[prefix |-> WebPrefixUpper, tag |-> KindContact, q |-> q] :
            q \in {qq \in Queries : Len(qq.pairs) = 1}}
    \cup {[prefix |-> LinkWebPrefix, tag |-> Str(<< "G", "r", "o", "u", "p" >>),
           q |-> [has |-> FALSE, pairs |-> << >>]]}

\* The shapes of crafted internal links: prefix and format tag.
InternalShapes ==
  { [prefix |-> LinkInternalPrefix, tag |-> FormatPB],
    [prefix |-> InternalPrefixLower, tag |-> Str(<< "p", "B" >>)],
    [prefix |-> LinkInternalPrefix, tag |-> Str(<< "X", "Y" >>)] }

\* A hand-made web link around the blob of any record.
CraftWeb(prefix, tag, l, q) ==
  prefix \o tag \o << Slash >> \o Base58Encode(ProtoMarshal(l))
    \o (IF q.has THEN << Slash >> \o EncodeSettings(q.pairs) ELSE << >>)

\* A hand-made internal link around the blob of any record.
CraftInternal(prefix, tag, l) ==
  prefix \o tag \o << Slash >> \o qrBaseEncode(ProtoMarshal(l))

\* Strings that are no link, or a broken one.
Garbage ==
  { << >>,
    Str(<< "b", "e", "r", "t", "y" >>),
    Str(<< "h", "t", "t", "p", ":", "/", "/", "b", "e", "r", "t", "y", ".", "t", "e",
           "c", "h", "/", "i", "d", "#", "c", "o", "n", "t", "a", "c", "t", "/", "2" >>),
    LinkInternalPrefix,
    LinkInternalPrefix \o FormatPB,
    LinkInternalPrefix \o Str(<< "X", "Y" >>),
    LinkInternalPrefix \o FormatPB \o Str(<< "/" >>),
    LinkInternalPrefix \o FormatPB \o Str(<< "/", "a", "b" >>),
    LinkInternalPrefix \o FormatPB \o Str(<< "/", "A", "A" >>),
    LinkInternalPrefix \o FormatPB \o Str(<< "/", "/", "S", "/" >>),
    LinkInternalPrefix \o Str(<< "/", "I" >>),
    LinkWebPrefix,
    LinkWebPrefix \o KindContact,
    LinkWebPrefix \o KindContact \o Str(<< "/" >>),
    LinkWebPrefix \o KindContact \o Str(<< "/", "0" >>),
    LinkWebPrefix \o KindContact \o Str(<< "/", "1" >>),
    LinkWebPrefix \o KindGroup \o Str(<< "/", "L", "q" >>),
    LinkWebPrefix \o KindGroup \o Str(<< "/", "L", "q", "/", "n", "a", "m", "e", "=",
                                          "%", "z", "z" >>),
    LinkWebPrefix \o KindGroup \o Str(<< "/", "L", "q", "/", "n", "a", "m", "e", "=",
                                          "a", "#", "b", "/", "c" >>),
    LinkWebPrefix \o Str(<< "/", "L", "q" >>) }

(***************************************************************************)
(* The calls                                                               *)
(***************************************************************************)

VARIABLES
  link,    \* the record the caller holds
  pc,      \* the last call made
  verr,    \* what IsValid, IsContact or IsGroup returned
  m,       \* what Marshal returned
  uri,     \* the string handed to UnmarshalLink
  via,     \* where uri came from
  query,   \* the query settings of a crafted web link
  u        \* what UnmarshalLink returned

vars == << link, pc, verr, m, uri, via, query, u >>

NoQuery == [has |-> FALSE, pairs |-> << >>]

Init ==
  /\ link \in InputLinks
  /\ pc = "start"
  /\ verr = "none"
  /\ m = MarshalError("none")
  /\ uri = << >>
  /\ via = "none"
  /\ query = NoQuery
  /\ u = UnmarshalError("none")

CallIsValid ==
  /\ pc = "start"
  /\ verr' = IsValid(link)
  /\ pc' = "IsValid"
  /\ UNCHANGED << link, m, uri, via, query, u >>

CallIsContact ==
  /\ pc = "start"
  /\ verr' = IsContact(link)
  /\ pc' = "IsContact"
  /\ UNCHANGED << link, m, uri, via, query, u >>

CallIsGroup ==
  /\ pc = "start"
  /\ verr' = IsGroup(link)
  /\ pc' = "IsGroup"
  /\ UNCHANGED << link, m, uri, via, query, u >>

CallMarshal ==
  /\ pc = "start"
  /\ m' = Marshal(link)
  /\ pc' = "Marshal"
  /\ UNCHANGED << link, verr, uri, via, query, u >>

\* UnmarshalLink on the internal URL Marshal returned.
UnmarshalMarshalledInternal ==
  /\ pc = "Marshal"
  /\ m.err = NoError
  /\ uri' = m.internal
  /\ via' = "internal"
  /\ u' = UnmarshalLink(m.internal)
  /\ pc' = "UnmarshalLink"
  /\ UNCHANGED << link, verr, m, query >>

\* UnmarshalLink on the web URL Marshal returned.
UnmarshalMarshalledWeb ==
  /\ pc = "Marshal"
  /\ m.err = NoError
  /\ uri' = m.web
  /\ via' = "web"
  /\ u' = UnmarshalLink(m.web)
  /\ pc' = "UnmarshalLink"
  /\ UNCHANGED << link, verr, m, query >>

\* UnmarshalLink on a hand-made web link whose blob holds the caller's record.
UnmarshalCraftedWeb ==
  /\ pc = "start"
  /\ ~link.nil
  /\ \E shape \in WebShapes :
       /\ uri' = CraftWeb(shape.prefix, shape.tag, link, shape.q)
       /\ query' = shape.q
  /\ via' = "craftedWeb"
  /\ u' = UnmarshalLink(uri')
  /\ pc' = "UnmarshalLink"
  /\ UNCHANGED << link, verr, m >>

\* UnmarshalLink on a hand-made internal link whose blob holds the caller's
\* record.
UnmarshalCraftedInternal ==
  /\ pc = "start"
  /\ ~link.nil
  /\ \E shape \in InternalShapes :
       uri' = CraftInternal(shape.prefix, shape.tag, link)
  /\ via' = "craftedInternal"
  /\ u' = UnmarshalLink(uri')
  /\ pc' = "UnmarshalLink"
  /\ UNCHANGED << link, verr, m, query >>

\* UnmarshalLink on a string that is no link.
UnmarshalGarbage ==
  /\ pc = "start"
  /\ link.nil
  /\ uri' \in Garbage
  /\ via' = "garbage"
  /\ u' = UnmarshalLink(uri')
  /\ pc' = "UnmarshalLink"
  /\ UNCHANGED << link, verr, m, query >>

\* The caller validates the record UnmarshalLink returned.
ValidateUnmarshalled ==
  /\ pc = "UnmarshalLink"
  /\ u.err = NoError
  /\ verr' = IsValid(u.link)
  /\ pc' = "IsValidUnmarshalled"
  /\ UNCHANGED << link, m, uri, via, query, u >>

Next ==
  \/ CallIsValid
  \/ CallIsContact
  \/ CallIsGroup
  \/ CallMarshal
  \/ UnmarshalMarshalledInternal
  \/ UnmarshalMarshalledWeb
  \/ UnmarshalCraftedWeb
  \/ UnmarshalCraftedInternal
  \/ UnmarshalGarbage
  \/ ValidateUnmarshalled

Spec == Init /\ [][Next]_vars

(***************************************************************************)
(* Properties                                                              *)
(***************************************************************************)

\* UnmarshalLink has returned (and the caller may have validated the result).
Unmarshalled == pc \in {"UnmarshalLink", "IsValidUnmarshalled"}

IsInternalForm(s) == HasPrefix(ToLower(s), ToLower(LinkInternalPrefix))

IsWebForm(s) == ~IsInternalForm(s) /\ HasPrefix(ToLower(s), ToLower(LinkWebPrefix))

\* Segment 0 of an internal-form string: the format tag.
FormatTagOf(s) == Split(Drop(s, Len(LinkInternalPrefix)), Slash)[1]

\* The sub-record fields that carry the display name of a record of kind k.
DisplayNameOf(l, k) ==
  IF k = BertyLink_ContactInviteV1Kind THEN l.BertyID.DisplayName
  ELSE l.BertyGroup.DisplayName

\* A group record that has a group type: both pointers on the way are set.
HasGroupType(l) ==
  /\ ~l.nil
  /\ l.Kind = BertyLink_GroupV1Kind
  /\ l.BertyGroup.present
  /\ l.BertyGroup.Group.present

\* C1 (as claimed): for every record IsValid accepts, Marshal succeeds and
\* UnmarshalLink of the internal URL returns a record deeply equal to it.
C1_InternalRoundTrip ==
  /\ (pc = "Marshal" /\ IsValid(link) = NoError) => m.err = NoError
  /\ (pc = "UnmarshalLink" /\ via = "internal") => (u.err = NoError /\ u.link = link)

\* C2: for every contact record IsValid accepts, UnmarshalLink of the web URL
\* returns a contact record whose accountPublicKey and publicRendezvousSeed
\* hold the same bytes and whose displayName is the same; the blob of the web
\* URL holds no display name, which comes back from the "name" setting.
C2_WebRoundTripContact ==
  /\ (pc = "UnmarshalLink" /\ via = "web"
        /\ link.Kind = BertyLink_ContactInviteV1Kind)
       => /\ u.err = NoError
          /\ u.link.Kind = BertyLink_ContactInviteV1Kind
          /\ u.link.BertyID.present
          /\ u.link.BertyID.AccountPK.b = link.BertyID.AccountPK.b
          /\ u.link.BertyID.PublicRendezvousSeed.b = link.BertyID.PublicRendezvousSeed.b
          /\ u.link.BertyID.DisplayName = link.BertyID.DisplayName
  /\ (pc = "Marshal" /\ m.err = NoError
        /\ link.Kind = BertyLink_ContactInviteV1Kind)
       => /\ Machine(link).BertyID.DisplayName = << >>
          /\ link.BertyID.DisplayName # << >>
               => m.web = LinkWebPrefix \o KindContact \o << Slash >>
                            \o Base58Encode(ProtoMarshal(Machine(link)))
                            \o << Slash >> \o ValuesEncode(link.BertyID.DisplayName)

\* The web URL of a contact whose display name holds reserved characters was
\* decoded and the name came back.
C2_Witness ==
  /\ pc = "UnmarshalLink"
  /\ via = "web"
  /\ link.Kind = BertyLink_ContactInviteV1Kind
  /\ link.BertyID.AccountPK.b # << >>
  /\ \E i \in 1..Len(link.BertyID.DisplayName) : link.BertyID.DisplayName[i] = Slash
  /\ u.link.BertyID.DisplayName = link.BertyID.DisplayName

\* C3 (as claimed): every record UnmarshalLink returns without error
\* satisfies IsValid.
C3_UnmarshalledIsValid ==
  (Unmarshalled /\ u.err = NoError) => IsValid(u.link) = NoError

\* C3 (amended): every record UnmarshalLink returns without error for a
\* web-form string has kind ContactInviteV1 or GroupV1, never Unknown, and
\* the sub-record of its kind is present.
C3_WebUnmarshalledHasKind ==
  (Unmarshalled /\ u.err = NoError /\ IsWebForm(uri))
    => /\ u.link.Kind \in {BertyLink_ContactInviteV1Kind, BertyLink_GroupV1Kind}
       /\ u.link.Kind = BertyLink_ContactInviteV1Kind => u.link.BertyID.present
       /\ u.link.Kind = BertyLink_GroupV1Kind => u.link.BertyGroup.present

\* A crafted web link whose blob holds no sub-record of the tag's kind was
\* decoded: the sub-record was created by the merge.
C3_Witness ==
  /\ pc = "UnmarshalLink"
  /\ via = "craftedWeb"
  /\ u.err = NoError
  /\ u.link.Kind = BertyLink_GroupV1Kind
  /\ ~link.BertyGroup.present
  /\ u.link.BertyGroup.present

\* C4 (as claimed): IsValid returns ErrMissingInput for a nil record and for
\* every record of kind Unknown.
C4_UnknownKindIsMissingInput ==
  (pc = "IsValid" /\ (link.nil \/ link.Kind = BertyLink_UnknownKind))
    => verr = ErrMissingInput

\* C5 (as claimed): IsValid accepts a contact record exactly when its
\* accountPublicKey and publicRendezvousSeed are both non-empty.
C5_ContactNeedsNonEmptyKeys ==
  (pc = "IsValid" /\ ~link.nil /\ link.Kind = BertyLink_ContactInviteV1Kind)
    => (verr = NoError
          <=> /\ link.BertyID.present
              /\ Len(link.BertyID.AccountPK.b) > 0
              /\ Len(link.BertyID.PublicRendezvousSeed.b) > 0)

\* C6: for a group record whose group type is not the multi-member type,
\* IsValid and Marshal fail with ErrInvalidInput; whenever Marshal returns an
\* error, both URLs are empty.
C6_NonMultiMemberRejected ==
  /\ (pc = "IsValid" /\ HasGroupType(link)
        /\ link.BertyGroup.Group.GroupType # GroupTypeMultiMember)
       => verr = ErrInvalidInput
  /\ (pc = "Marshal" /\ HasGroupType(link)
        /\ link.BertyGroup.Group.GroupType # GroupTypeMultiMember)
       => (m.err = ErrInvalidInput /\ m.internal = << >> /\ m.web = << >>)
  /\ (pc = "Marshal" /\ m.err \in {ErrMissingInput, ErrInvalidInput})
       => (m.internal = << >> /\ m.web = << >>)

\* Marshal was called on a group record of another group type and failed.
C6_Witness ==
  /\ pc = "Marshal"
  /\ HasGroupType(link)
  /\ link.BertyGroup.Group.GroupType # GroupTypeMultiMember
  /\ link.BertyGroup.Group.PublicKey.b # << >>
  /\ m.err = ErrInvalidInput

\* C7: UnmarshalLink fails with ErrMissingInput exactly on the empty string;
\* every other failure is ErrInvalidInput, among them a string with neither
\* prefix and an internal-form string whose format tag is not "PB" in any
\* case.
C7_UnmarshalErrors ==
  Unmarshalled
    => /\ u.err \in {NoError, ErrMissingInput, ErrInvalidInput}
       /\ u.err = ErrMissingInput <=> uri = << >>
       /\ (uri # << >> /\ ~IsInternalForm(uri) /\ ~IsWebForm(uri))
            => u.err = ErrInvalidInput
       /\ (IsInternalForm(uri) /\ ToLower(FormatTagOf(uri)) # ToLower(FormatPB))
            => u.err = ErrInvalidInput

\* An internal-form string with a well-formed blob behind the format tag XY
\* was refused.
C7_Witness ==
  /\ pc = "UnmarshalLink"
  /\ via = "craftedInternal"
  /\ IsValid(link) = NoError
  /\ FormatTagOf(uri) = Str(<< "X", "Y" >>)
  /\ u.err = ErrInvalidInput

\* C8: the display name of a decoded web link is the one in the blob when
\* that is non-empty, else the first "name" setting of the query, else empty.
C8_BlobNameWins ==
  (Unmarshalled /\ via = "craftedWeb" /\ u.err = NoError)
    => DisplayNameOf(u.link, u.link.Kind)
         = IF DisplayNameOf(link, u.link.Kind) # << >>
             THEN DisplayNameOf(link, u.link.Kind)
           ELSE ValuesGet(query.pairs, KeyName)

\* A crafted web link with a name in the blob and another one in the query
\* was decoded.
C8_Witness ==
  /\ pc = "UnmarshalLink"
  /\ via = "craftedWeb"
  /\ u.err = NoError
  /\ DisplayNameOf(link, u.link.Kind) # << >>
  /\ ValuesGet(query.pairs, KeyName) # << >>
  /\ ValuesGet(query.pairs, KeyName) # DisplayNameOf(link, u.link.Kind)
  /\ DisplayNameOf(u.link, u.link.Kind) = DisplayNameOf(link, u.link.Kind)

\* The 45 characters of the QR alphanumeric mode: the digits, the capital
\* letters, and SP $ % * + - . / :
QRAlphanumeric ==
  (48..57) \cup (65..90) \cup {32, 36, 37, 42, 43, 45, 46, 47, 58}

\* SP, % and +, which url.Encode changes.
QRRemoved == {32, 37, 43}

NoDuplicates(s) == \A i, j \in 1..Len(s) : s[i] = s[j] => i = j

Members(s) == {s[i] : i \in 1..Len(s)}

\* The blob of an internal URL: what follows "BERTY://PB/".
BlobOf(internal) == Drop(internal, Len(LinkInternalPrefix) + Len(FormatPB) + 1)

\* C9 (as claimed): the alphabet in which Marshal writes the blob of the
\* internal URL is duplicate-free and has exactly 43 characters, the QR
\* alphanumeric set without space, '%' and '+'.
C9_AlphabetHas43 ==
  (pc = "Marshal" /\ m.err = NoError)
    => /\ Members(BlobOf(m.internal)) \subseteq Members(qrAlphabet)
       /\ NoDuplicates(qrAlphabet)
       /\ Len(qrAlphabet) = 43
       /\ Members(qrAlphabet) = QRAlphanumeric \ QRRemoved

\* C9 (amended): the alphabet in which Marshal writes the blob of the
\* internal URL is duplicate-free and has exactly 42 characters, the 45 of
\* the QR alphanumeric set without space, '%' and '+'.
C9_AlphabetHas42 ==
  (pc = "Marshal" /\ m.err = NoError)
    => /\ Members(BlobOf(m.internal)) \subseteq Members(qrAlphabet)
       /\ NoDuplicates(qrAlphabet)
       /\ Cardinality(QRAlphanumeric) = 45
       /\ Len(qrAlphabet) = 42
       /\ Members(qrAlphabet) = QRAlphanumeric \ QRRemoved

\* Marshal returned an internal URL whose blob holds the last character of
\* the alphabet, '/'.
C9_Witness ==
  /\ pc = "Marshal"
  /\ m.err = NoError
  /\ BlobOf(m.internal) # << >>
  /\ qrAlphabet[Len(qrAlphabet)] \in Members(BlobOf(m.internal))

\* C10 (as claimed): IsValid, IsContact, IsGroup and Marshal return for every
\* record (none is a crash), and IsValid returns ErrMissingInput for a group
\* record without a populated group descriptor.
C10_IsValidTotal ==
  /\ pc \in {"IsValid", "IsValidUnmarshalled"}
       => verr \in {NoError, ErrMissingInput, ErrInvalidInput}
  /\ (pc \in {"IsContact", "IsGroup"} /\ ~link.nil) => verr \in {"true", "false"}
  /\ pc = "Marshal" => m.err \in {NoError, ErrMissingInput, ErrInvalidInput}
  /\ (pc = "IsValid" /\ ~link.nil /\ link.Kind = BertyLink_GroupV1Kind
        /\ ~HasGroupType(link))
       => verr = ErrMissingInput

====
